---- MODULE Spec2Model ----
(***************************************************************************)
(* Podcast preview card (src/src/components/podcastPreview.js) and the     *)
(* grid renderer that instantiates it (src/src/views/createGrid.js).       *)
(*                                                                         *)
(* A JavaScript value that may be undefined is a sequence of length at     *)
(* most one: <<>> is undefined, <<v>> is the value v.                      *)
(***************************************************************************)
EXTENDS Integers, Sequences, FiniteSets, TLC

VARIABLES
    card,         \* a standalone <podcast-preview> element
    hasContainer, \* whether getElementById("podcastGrid") found an element
    grid,         \* "none" before createGrid(), "created" after it returned,
                  \* "failed" after it reported an error
    container,    \* children of #podcastGrid, in document order
    dateFmt,      \* the date collaborator: a deterministic function
    renders,      \* number of render() calls made so far
    lastRender,   \* how the last render() call ended: "none", "returned", "threw"
    history,      \* the setPodcast calls made on the standalone card so far
    lastOp,       \* the last operation and how it ended
    lastList,     \* argument of the last render() call
    genreCalls,   \* arguments of GenreService.getNames during the last operation
    dateCalls,    \* arguments of DateUtils.format during the last operation
    emitted,      \* podcast-selected events dispatched during the last operation
    modalOpened,  \* arguments of createModal.open during the last operation
    attributes,   \* attributes of the standalone element, by name
    collaboratorThrew, \* whether a collaborator call of the last operation threw
    inputsAfter   \* the objects of the last render() argument, as they are after the call

vars == <<card, hasContainer, grid, container, dateFmt, renders, lastRender, history,
          lastOp, lastList, genreCalls, dateCalls, emitted, modalOpened,
          attributes, collaboratorThrew, inputsAfter>>

-----------------------------------------------------------------------------
(* Bounds *)

MaxSeasons == 2
MaxList == 2
MaxRenders == 2

-----------------------------------------------------------------------------
(* JavaScript values *)

None == <<>>
Some(v) == <<v>>

-----------------------------------------------------------------------------
(* Podcast records *)

Shows ==
    { [id |-> "1", title |-> "Show A", image |-> "a.jpg", genres |-> <<1, 2>>],
      [id |-> "2", title |-> "Show B", image |-> "b.jpg", genres |-> <<>>] }

Updateds == {"2023-01-15T00:00:00Z"}

GenreNamesGiven == {None, Some(<<>>), Some(<<"Drama", "Comedy">>)}

FormattedDateGiven == {None, Some(""), Some("15/01/2023")}

PodcastRecord(show, n, upd, gn, fd) ==
    [id |-> show.id, title |-> show.title, image |-> show.image,
     seasons |-> n, genres |-> show.genres, updated |-> upd,
     genreNames |-> gn, formattedDate |-> fd]

\* records a host page may hand to a standalone card
Podcasts ==
    { PodcastRecord(s, n, u, gn, fd) :
        s \in Shows, n \in 0..MaxSeasons, u \in Updateds,
        gn \in GenreNamesGiven, fd \in FormattedDateGiven }

\* records of the lists handed to the grid
GridPodcasts ==
    { PodcastRecord(s, 3, u, e[1], e[2]) :
        s \in Shows, u \in Updateds,
        e \in { <<None, None>>, <<Some(<<"Drama", "Comedy">>), Some("15/01/2023")>> } }

RECURSIVE ListsUpTo(_, _)
ListsUpTo(S, n) ==
    IF n = 0 THEN {<<>>}
    ELSE LET shorter == ListsUpTo(S, n - 1)
         IN  shorter \cup { Append(l, x) : l \in { k \in shorter : Len(k) = n - 1 }, x \in S }

-----------------------------------------------------------------------------
(* External collaborators *)

GenreName(id) == IF id = 1 THEN "Comedy" ELSE IF id = 2 THEN "News" ELSE "Unknown"

\* GenreService.getNames(ids): same length, same order
getNames(ids) == [i \in 1..Len(ids) |-> GenreName(ids[i])]

\* what DateUtils.format may return
DateStrings == {"", "Jan 15, 2023"}

\* DateUtils.format(iso)
format(iso) == dateFmt[iso]

\* The collaborator calls of one operation are counted; the call numbered
\* throwAt throws (0: none does).
NewCtx(throwAt) ==
    [genreCalls |-> <<>>, dateCalls |-> <<>>, ncalls |-> 0, threw |-> FALSE, throwAt |-> throwAt]

CallGenre(ctx, ids) ==
    [ctx EXCEPT !.genreCalls = Append(@, ids), !.ncalls = @ + 1,
                !.threw = (ctx.ncalls + 1 = ctx.throwAt)]

CallDate(ctx, iso) ==
    [ctx EXCEPT !.dateCalls = Append(@, iso), !.ncalls = @ + 1,
                !.threw = (ctx.ncalls + 1 = ctx.throwAt)]

-----------------------------------------------------------------------------
(* PodcastPreview *)

\* the cloned template: <img />, <h3></h3>, <p class="seasons">, <div class="tags">,
\* <p class="updated-text">
template == [src |-> "", alt |-> "", title |-> "", seasons |-> "", tags |-> <<>>, updated |-> ""]

\* new PodcastPreview(); createdIn records the render() call that created the
\* element (0: created by the host page)
constructor(createdIn) ==
    [podcast |-> None, elements |-> template, onclick |-> <<>>, listeners |-> <<>>,
     createdIn |-> createdIn]

\* `${seasons} season${seasons > 1 ? "s" : ""}`
SeasonText(seasons) == ToString(seasons) \o " season" \o (IF seasons > 1 THEN "s" ELSE "")

\* `${title} cover`
AltText(title) == title \o " cover"

\* `<span class="tag">${g}</span>`
TagSpan(g) == [tag |-> "span", class |-> "tag", text |-> g]

\* tags.innerHTML = names.map(...).join(""): the children of .tags afterwards
TagsHtml(names) == [k \in 1..Len(names) |-> TagSpan(names[k])]

\* mutant: an empty array taken for a missing one
GenreNamesNonEmpty(gn) == gn # None /\ gn # Some(<<>>)

\* genreNames || ...: an array is truthy, undefined is not
GenreNamesTruthy(gn) == gn # None

\* formattedDate || ...: a non-empty string is truthy; undefined and "" are not
FormattedDateTruthy(fd) == fd # None /\ fd # Some("")

\* mutant: addEventListener("click", ...) on every pass instead of onclick =
AttachOnclickAppend(handlers) == Append(handlers, "dispatchSelected")

\* card.onclick = () => dispatchEvent(...): assignment replaces the handler
AttachOnclick(handlers) == <<"dispatchSelected">>

\* mutant: the alternative text is written only once
RenderedElementsStaleAlt(els, p, resolvedGenreNames, displayDate) ==
    [els EXCEPT !.src = p.image,
                !.alt = IF @ = "" THEN AltText(p.title) ELSE @,
                !.title = p.title,
                !.seasons = SeasonText(p.seasons),
                !.tags = TagsHtml(resolvedGenreNames),
                !.updated = displayDate]

\* mutant: tags.innerHTML += ... instead of tags.innerHTML = ...
RenderedElementsAppendTags(els, p, resolvedGenreNames, displayDate) ==
    [els EXCEPT !.src = p.image,
                !.alt = AltText(p.title),
                !.title = p.title,
                !.seasons = SeasonText(p.seasons),
                !.tags = @ \o TagsHtml(resolvedGenreNames),
                !.updated = displayDate]

\* the assignments of renderPodcast to this.elements
RenderedElements(els, p, resolvedGenreNames, displayDate) ==
    [els EXCEPT !.src = p.image,
                !.alt = AltText(p.title),
                !.title = p.title,
                !.seasons = SeasonText(p.seasons),
                !.tags = TagsHtml(resolvedGenreNames),
                !.updated = displayDate]

\* mutant: the click handler is attached before the guard
NoPodcastPassAttach(c, ctx) == [card |-> [c EXCEPT !.onclick = <<"dispatchSelected">>], ctx |-> ctx]

\* if (!this._podcast) return;
NoPodcastPass(c, ctx) == [card |-> c, ctx |-> ctx]

\* renderPodcast(): the card afterwards and the collaborator calls made
renderPodcast(c, ctx) ==
    IF c.podcast = None THEN NoPodcastPass(c, ctx)
    ELSE
      LET p == c.podcast[1]
          needGenres == ~GenreNamesTruthy(p.genreNames)
          ctx1 == IF needGenres THEN CallGenre(ctx, p.genres) ELSE ctx
          resolvedGenreNames == IF needGenres THEN getNames(p.genres) ELSE p.genreNames[1]
          needDate == ~ctx1.threw /\ ~FormattedDateTruthy(p.formattedDate)
          ctx2 == IF needDate THEN CallDate(ctx1, p.updated) ELSE ctx1
          displayDate == IF needDate THEN format(p.updated) ELSE p.formattedDate[1]
      IN  IF ctx2.threw THEN [card |-> c, ctx |-> ctx2]
          ELSE [card |-> [c EXCEPT !.elements = RenderedElements(@, p, resolvedGenreNames, displayDate),
                                   !.onclick = AttachOnclick(@)],
                ctx |-> ctx2]

\* this._podcast = podcast
StorePodcast(c, podcast) == [c EXCEPT !.podcast = Some(podcast)]

\* mutant: the record is stored only when the render pass returned
setPodcastStoreAfterPass(c, podcast, ctx) ==
    LET r == renderPodcast(StorePodcast(c, podcast), ctx)
    IN  IF r.ctx.threw THEN [card |-> c, ctx |-> r.ctx] ELSE r

\* setPodcast(podcast)
setPodcast(c, podcast, ctx) == renderPodcast(StorePodcast(c, podcast), ctx)

\* the calls that may throw in an operation making ncalls collaborator calls
ThrowPoints(ncalls) == 0..ncalls

\* mutant: the event is created without bubbles and composed
SelectedEventLocal(c) ==
    [type |-> "podcast-selected", detail |-> [podcast |-> c.podcast[1]],
     bubbles |-> FALSE, composed |-> FALSE]

\* new CustomEvent("podcast-selected", {detail, bubbles, composed})
SelectedEvent(c) ==
    [type |-> "podcast-selected", detail |-> [podcast |-> c.podcast[1]],
     bubbles |-> TRUE, composed |-> TRUE]

\* a click on .card: every attached handler dispatches one event
ClickEvents(c) == [i \in 1..Len(c.onclick) |-> SelectedEvent(c)]

\* this.dispatchEvent(event): the events a listener on an ancestor of the element
\* receives; an ancestor beyond a shadow boundary receives only composed events
ReceivedByAncestor(events, beyondBoundary) ==
    SelectSeq(events, LAMBDA e : e.bubbles /\ (beyondBoundary => e.composed))

\* the listeners of the element run once per dispatched event
RECURSIVE Dispatch(_, _)
Dispatch(events, listeners) ==
    IF events = <<>> THEN <<>>
    ELSE [i \in 1..Len(listeners) |-> Head(events).detail.podcast]
         \o Dispatch(Tail(events), listeners)

\* the attributes a host page may set, and their values
AttributeNames == {"title", "image", "seasons", "updated"}

AttributeValues(name) ==
    IF name = "title" THEN { sh.title : sh \in Shows }
    ELSE IF name = "image" THEN { sh.image : sh \in Shows }
    ELSE IF name = "seasons" THEN { ToString(n) : n \in 0..MaxSeasons }
    ELSE Updateds

\* element.setAttribute(name, value): the class declares neither observedAttributes
\* nor attributeChangedCallback, so only the attribute itself changes
setAttribute(c, attrs, name, value) ==
    [card |-> c, attributes |-> [attrs EXCEPT ![name] = Some(value)]]

-----------------------------------------------------------------------------
(* Initial state *)

Init ==
    /\ card = constructor(0)
    /\ hasContainer = FALSE
    /\ grid = "none"
    /\ container = <<>>
    /\ dateFmt \in [Updateds -> DateStrings]
    /\ renders = 0
    /\ lastRender = "none"
    /\ history = [lastSet |-> None, calls |-> 0, lastReturned |-> FALSE,
                  everReturned |-> FALSE, tagsBefore |-> 0]
    /\ lastOp = [op |-> "init", threw |-> FALSE, err |-> "none", index |-> 0]
    /\ lastList = <<>>
    /\ genreCalls = <<>>
    /\ dateCalls = <<>>
    /\ emitted = <<>>
    /\ modalOpened = <<>>
    /\ attributes = [name \in AttributeNames |-> None]
    /\ collaboratorThrew = FALSE
    /\ inputsAfter = <<>>

gridVars == <<hasContainer, grid, container, renders, lastRender, lastList, inputsAfter>>

\* mutant: the exception is caught and the operation returns
OutcomeCaught(name, ctx) == [op |-> name, threw |-> FALSE, err |-> "none", index |-> 0]

\* how an operation that made collaborator calls ended: nothing catches an
\* exception of a collaborator
Outcome(name, ctx) ==
    [op |-> name, threw |-> ctx.threw,
     err |-> IF ctx.threw THEN "collaborator" ELSE "none", index |-> 0]

\* the record of the setPodcast calls, kept for the properties below
Recorded(h, c, podcast, threw) ==
    [lastSet |-> Some(podcast),
     calls |-> IF h.calls < 2 THEN h.calls + 1 ELSE h.calls,
     lastReturned |-> ~threw,
     everReturned |-> h.everReturned \/ ~threw,
     tagsBefore |-> Len(c.elements.tags)]

-----------------------------------------------------------------------------
(* Operations on the standalone card *)

\* card.setPodcast(podcast)
SetPodcast ==
    \E podcast \in Podcasts :
      \E throwAt \in ThrowPoints(setPodcast(card, podcast, NewCtx(0)).ctx.ncalls) :
        \E r \in {setPodcast(card, podcast, NewCtx(throwAt))} :
            /\ card' = r.card
            /\ history' = Recorded(history, card, podcast, r.ctx.threw)
            /\ lastOp' = Outcome("setPodcast", r.ctx)
            /\ collaboratorThrew' = r.ctx.threw
            /\ genreCalls' = r.ctx.genreCalls
            /\ dateCalls' = r.ctx.dateCalls
            /\ emitted' = <<>>
            /\ modalOpened' = <<>>
            /\ UNCHANGED <<gridVars, dateFmt, attributes>>

\* card.renderPodcast() called directly
RenderPodcast ==
    \E throwAt \in ThrowPoints(renderPodcast(card, NewCtx(0)).ctx.ncalls) :
        \E r \in {renderPodcast(card, NewCtx(throwAt))} :
            /\ card' = r.card
            /\ lastOp' = Outcome("renderPodcast", r.ctx)
            /\ collaboratorThrew' = r.ctx.threw
            /\ genreCalls' = r.ctx.genreCalls
            /\ dateCalls' = r.ctx.dateCalls
            /\ emitted' = <<>>
            /\ modalOpened' = <<>>
            /\ UNCHANGED <<gridVars, dateFmt, attributes, history>>

\* the host page sets an attribute of the element
SetAttribute ==
    \E name \in AttributeNames :
      \E value \in AttributeValues(name) :
        \E r \in {setAttribute(card, attributes, name, value)} :
            /\ card' = r.card
            /\ attributes' = r.attributes
            /\ lastOp' = [op |-> "setAttribute", threw |-> FALSE, err |-> "none", index |-> 0]
            /\ collaboratorThrew' = FALSE
            /\ genreCalls' = <<>>
            /\ dateCalls' = <<>>
            /\ emitted' = <<>>
            /\ modalOpened' = <<>>
            /\ UNCHANGED <<gridVars, dateFmt, history>>

\* the user clicks the card surface
Click ==
    /\ emitted' = ClickEvents(card)
    /\ modalOpened' = Dispatch(ClickEvents(card), card.listeners)
    /\ lastOp' = [op |-> "click", threw |-> FALSE, err |-> "none", index |-> 0]
    /\ collaboratorThrew' = FALSE
    /\ genreCalls' = <<>>
    /\ dateCalls' = <<>>
    /\ UNCHANGED <<card, gridVars, dateFmt, attributes, history>>

-----------------------------------------------------------------------------
(* createGrid *)

\* mutant: the selection listener is never registered
AddSelectedListenerNever(el) == el

\* podcastPreview.addEventListener("podcast-selected", e => createModal.open(e.detail.podcast))
AddSelectedListener(el) == [el EXCEPT !.listeners = Append(@, "openModal")]

\* mutant: the fields are assigned on the entry itself
InputAfterRenderAssigned(podcast) ==
    [podcast EXCEPT !.genreNames = Some(getNames(podcast.genres)),
                    !.formattedDate = Some(format(podcast.updated))]

\* the entry after render(): the spread copies it, nothing is assigned on it
InputAfterRender(podcast) == podcast

\* mutant: fields the entry already carries are kept
EnrichedIfAbsent(podcast) ==
    [podcast EXCEPT !.genreNames = IF @ = None THEN Some(getNames(podcast.genres)) ELSE @,
                    !.formattedDate = IF @ = None THEN Some(format(podcast.updated)) ELSE @]

\* { ...podcast, genreNames: GenreService.getNames(...), formattedDate: DateUtils.format(...) }
Enriched(podcast) ==
    [podcast EXCEPT !.genreNames = Some(getNames(podcast.genres)),
                    !.formattedDate = Some(format(podcast.updated))]

\* one iteration of podcastList.forEach: the container and the calls afterwards
RenderEntry(acc, podcast, createdIn) ==
    LET podcastPreview == constructor(createdIn)
        ctx1 == CallGenre(acc.ctx, podcast.genres)
        ctx2 == IF ctx1.threw THEN ctx1 ELSE CallDate(ctx1, podcast.updated)
        enriched == Enriched(podcast)
        r == setPodcast(podcastPreview, enriched, ctx2)
        listening == AddSelectedListener(r.card)
    IN  IF ctx2.threw THEN [acc EXCEPT !.ctx = ctx2]
        ELSE IF r.ctx.threw THEN [acc EXCEPT !.ctx = r.ctx]
        ELSE [container |-> Append(acc.container, listening), ctx |-> r.ctx]

\* podcastList.forEach(...): an exception ends the iteration
RECURSIVE forEach(_, _, _)
forEach(podcastList, acc, createdIn) ==
    IF podcastList = <<>> \/ acc.ctx.threw THEN acc
    ELSE forEach(Tail(podcastList), RenderEntry(acc, Head(podcastList), createdIn), createdIn)

\* mutant: the container is not cleared
ClearContainerKeep(children) == children

\* container.innerHTML = ""
ClearContainer(children) == <<>>

\* render(podcastList) on a grid whose container exists
render(children, podcastList, ctx, createdIn) ==
    forEach(podcastList, [container |-> ClearContainer(children), ctx |-> ctx], createdIn)

\* createGrid() returns the renderer whether or not the container was found
CreateGridResult(found) == "created"

\* createGrid(): looks the container up and returns the renderer
CreateGrid ==
    /\ grid = "none"
    /\ \E found \in BOOLEAN : hasContainer' = found
    /\ grid' = CreateGridResult(hasContainer')
    /\ lastOp' = [op |-> "createGrid", threw |-> FALSE, err |-> "none", index |-> 0]
    /\ collaboratorThrew' = FALSE
    /\ genreCalls' = <<>>
    /\ dateCalls' = <<>>
    /\ emitted' = <<>>
    /\ modalOpened' = <<>>
    /\ UNCHANGED <<card, container, dateFmt, attributes, renders, lastRender, lastList, history,
                   inputsAfter>>

\* grid.render(podcastList); without a container the first statement throws a TypeError
Render ==
    /\ grid = "created"
    /\ renders < MaxRenders
    /\ \E podcastList \in ListsUpTo(GridPodcasts, MaxList) :
         \E throwAt \in ThrowPoints(render(container, podcastList, NewCtx(0), 0).ctx.ncalls) :
           \E r \in {render(container, podcastList, NewCtx(throwAt), renders + 1)} :
               /\ renders' = renders + 1
               /\ lastList' = podcastList
               /\ inputsAfter' = [i \in 1..Len(podcastList) |-> InputAfterRender(podcastList[i])]
               /\ emitted' = <<>>
               /\ modalOpened' = <<>>
               /\ IF hasContainer
                  THEN /\ container' = r.container
                       /\ lastOp' = Outcome("render", r.ctx)
                       /\ collaboratorThrew' = r.ctx.threw
                       /\ lastRender' = IF r.ctx.threw THEN "threw" ELSE "returned"
                       /\ genreCalls' = r.ctx.genreCalls
                       /\ dateCalls' = r.ctx.dateCalls
                  ELSE /\ container' = container
                       /\ lastOp' = [op |-> "render", threw |-> TRUE, err |-> "TypeError", index |-> 0]
                       /\ collaboratorThrew' = FALSE
                       /\ lastRender' = "threw"
                       /\ genreCalls' = <<>>
                       /\ dateCalls' = <<>>
               /\ UNCHANGED <<card, hasContainer, grid, dateFmt, attributes, history>>

\* the user clicks the i-th card of the grid
ClickCard ==
    \E i \in 1..Len(container) :
        /\ emitted' = ClickEvents(container[i])
        /\ modalOpened' = Dispatch(ClickEvents(container[i]), container[i].listeners)
        /\ lastOp' = [op |-> "clickCard", threw |-> FALSE, err |-> "none", index |-> i]
        /\ collaboratorThrew' = FALSE
        /\ genreCalls' = <<>>
        /\ dateCalls' = <<>>
        /\ UNCHANGED <<card, gridVars, dateFmt, attributes, history>>

-----------------------------------------------------------------------------
(* Specifications *)

NextCard == SetPodcast \/ RenderPodcast \/ Click

NextGrid == CreateGrid \/ Render \/ ClickCard

Next == NextCard \/ NextGrid \/ SetAttribute

\* the whole system
Spec == Init /\ [][Next]_vars

\* a card used standalone by a host page
SpecCard == Init /\ [][NextCard]_vars

\* the grid renderer and the cards it creates
SpecGrid == Init /\ [][NextGrid]_vars

NextHost == (grid = "none" /\ NextCard) \/ (history.calls = 0 /\ NextGrid)

\* a host page that uses either a standalone card or the grid
SpecHost == Init /\ [][NextHost]_vars

NextAttr == SetAttribute \/ RenderPodcast \/ Click

\* a card that is given its data through attributes only
SpecAttr == Init /\ [][NextAttr]_vars

-----------------------------------------------------------------------------
(* Properties *)

\* the texts of the children of .tags
TagTexts(tags) == [k \in 1..Len(tags) |-> tags[k].text]

\* the genre names a record resolves to
ResolvedNames(p) == IF p.genreNames = None THEN getNames(p.genres) ELSE p.genreNames[1]

\* the last operation ran a render pass over a stored record
AfterPass == lastOp.op \in {"setPodcast", "renderPodcast"} /\ card.podcast # None

\* C1: after setPodcast(record) the season text is "1 season" for one season
\* and "{n} seasons" for every other count, 0 included.
C1_SeasonTextPluralised ==
    history.lastReturned =>
        LET n == history.lastSet[1].seasons
        IN  card.elements.seasons = (IF n = 1 THEN "1 season" ELSE ToString(n) \o " seasons")

\* C2: a click after setPodcast calls, one of which returned, emits exactly one
\* selection notification carrying the record of the most recent setPodcast
\* call; the card never holds more than one click handler.
C2_ClickEmitsCurrentRecordOnce ==
    /\ Len(card.onclick) <= 1
    /\ (lastOp.op = "click" /\ history.everReturned) =>
          /\ Len(emitted) = 1
          /\ emitted[1].detail.podcast = history.lastSet[1]

C2_Witness ==
    /\ lastOp.op = "click"
    /\ history.calls = 2
    /\ history.lastReturned
    /\ history.tagsBefore # Len(card.elements.tags)
    /\ Len(emitted) = 1

\* C3: after a render call that returned, the container holds one card per
\* entry of the list of that call, in order, each created by that call.
C3_ContainerIsLastList ==
    lastRender = "returned" =>
        /\ Len(container) = Len(lastList)
        /\ \A i \in 1..Len(container) :
              /\ container[i].createdIn = renders
              /\ container[i].podcast # None
              /\ LET p == container[i].podcast[1]
                     q == lastList[i]
                 IN  /\ <<p.id, p.title, p.image, p.seasons, p.genres, p.updated>>
                          = <<q.id, q.title, q.image, q.seasons, q.genres, q.updated>>
                     /\ container[i].elements.title = q.title

C3_Witness ==
    /\ lastOp.op = "render"
    /\ lastRender = "returned"
    /\ renders = 2
    /\ Len(container) = 1

\* C4: a click on a card of the grid opens the modal exactly once, with the
\* enriched record of that card.
C4_ClickOpensModalOnce ==
    lastOp.op = "clickCard" =>
        LET q == lastList[lastOp.index]
        IN  /\ Len(modalOpened) = 1
            /\ modalOpened[1] = [q EXCEPT !.genreNames = Some(getNames(q.genres)),
                                          !.formattedDate = Some(dateFmt[q.updated])]

C4_Witness ==
    /\ lastOp.op = "clickCard"
    /\ lastOp.index = 2
    /\ lastList[1] # lastList[2]
    /\ Len(modalOpened) = 1

\* C5: a render pass never calls the genre collaborator when the record
\* carries genreNames, and shows them as they are; otherwise it calls it once,
\* with record.genres, and shows its result.
C5_GenreNamesDerivedOnlyWhenAbsent ==
    AfterPass =>
        LET p == card.podcast[1]
        IN  IF p.genreNames # None
            THEN /\ genreCalls = <<>>
                 /\ ~lastOp.threw => TagTexts(card.elements.tags) = p.genreNames[1]
            ELSE /\ genreCalls = <<p.genres>>
                 /\ ~lastOp.threw => TagTexts(card.elements.tags) = getNames(p.genres)

C5_Witness ==
    /\ lastOp.op = "setPodcast"
    /\ ~lastOp.threw
    /\ card.podcast[1].genreNames = Some(<<>>)
    /\ card.podcast[1].genres # <<>>
    /\ genreCalls = <<>>
    /\ card.elements.tags = <<>>

\* C6: a render pass never calls the date collaborator when the record carries
\* formattedDate, whatever string it is, and shows that string.
C6_FormattedDateUsedAsIs ==
    (AfterPass /\ card.podcast[1].formattedDate # None) =>
        /\ dateCalls = <<>>
        /\ ~lastOp.threw => card.elements.updated = card.podcast[1].formattedDate[1]

\* C7: without a container, createGrid reports an error, or render is a no-op;
\* no card is created, no collaborator is called and the modal is not opened.
C7_MissingContainerReported ==
    (grid # "none" /\ ~hasContainer) =>
        /\ grid = "failed" \/ (lastOp.op = "render" => ~lastOp.threw)
        /\ container = <<>> /\ genreCalls = <<>> /\ dateCalls = <<>> /\ modalOpened = <<>>

\* C8: whenever the last setPodcast call returned, every displayed field is
\* that of the record of that call.
C8_DisplayIsLastRecord ==
    history.lastReturned =>
        LET p == history.lastSet[1]
            e == card.elements
        IN  /\ e.src = p.image
            /\ e.alt = p.title \o " cover"
            /\ e.title = p.title
            /\ e.seasons = ToString(p.seasons) \o (IF p.seasons >= 2 THEN " seasons" ELSE " season")
            /\ TagTexts(e.tags) = ResolvedNames(p)
            /\ e.updated = (IF p.formattedDate \in {None, Some("")}
                            THEN dateFmt[p.updated] ELSE p.formattedDate[1])

C8_Witness ==
    /\ history.calls = 2
    /\ history.lastReturned
    /\ history.tagsBefore = 2
    /\ card.elements.tags = <<>>
    /\ card.elements.title = "Show B"

\* C9: on a card on which setPodcast was never called, a render pass changes
\* nothing, calls no collaborator and does not throw, and a click emits nothing.
C9_RenderPassWithoutRecord ==
    history.calls = 0 =>
        /\ card.podcast = None
        /\ card.elements = [src |-> "", alt |-> "", title |-> "", seasons |-> "",
                            tags |-> <<>>, updated |-> ""]
        /\ card.onclick = <<>>
        /\ genreCalls = <<>> /\ dateCalls = <<>>
        /\ ~lastOp.threw
        /\ emitted = <<>>

C9_Witness == history.calls = 0 /\ lastOp.op = "renderPodcast"

\* C10: after setPodcast(record) returned, the tag list holds one span per
\* resolved genre name, in order, and nothing of the tags shown before.
C10_TagsAreResolvedNames ==
    (lastOp.op = "setPodcast" /\ ~lastOp.threw) =>
        LET names == ResolvedNames(history.lastSet[1])
            tags == card.elements.tags
        IN  /\ Len(tags) = Len(names)
            /\ \A k \in 1..Len(tags) : tags[k] = [tag |-> "span", class |-> "tag", text |-> names[k]]

C10_Witness ==
    /\ lastOp.op = "setPodcast"
    /\ ~lastOp.threw
    /\ history.tagsBefore = 2
    /\ TagTexts(card.elements.tags) = <<"Comedy", "News">>

\* C11: every card of the grid stores its list entry with genreNames and
\* formattedDate set to the collaborators' results for the entry's genres and
\* updated, whatever the entry carried in those fields.
C11_EnrichmentUnconditional ==
    \A i \in 1..Len(container) :
        /\ container[i].podcast # None
        /\ container[i].podcast[1].genreNames = Some(getNames(lastList[i].genres))
        /\ container[i].podcast[1].formattedDate = Some(dateFmt[lastList[i].updated])

C11_Witness ==
    /\ lastOp.op = "render"
    /\ lastRender = "returned"
    /\ Len(container) = 2
    /\ lastList[2].genreNames = Some(<<"Drama", "Comedy">>)
    /\ lastList[2].formattedDate = Some("15/01/2023")
    /\ container[2].podcast[1].genreNames # lastList[2].genreNames
    /\ container[2].podcast[1].formattedDate # lastList[2].formattedDate

\* C12: every notification of a click is a bubbling, composed podcast-selected
\* event carrying the card's current record, and a listener on an ancestor,
\* beyond a shadow boundary or not, receives it exactly once per click.
C12_NotificationReachesAncestors ==
    lastOp.op = "click" =>
        /\ \A k \in 1..Len(emitted) :
              /\ emitted[k].type = "podcast-selected"
              /\ emitted[k].bubbles /\ emitted[k].composed
              /\ emitted[k].detail = [podcast |-> history.lastSet[1]]
        /\ \A beyond \in BOOLEAN :
              /\ ReceivedByAncestor(emitted, beyond) = emitted
              /\ history.everReturned => Len(ReceivedByAncestor(emitted, beyond)) = 1

C12_Witness ==
    /\ lastOp.op = "click"
    /\ history.lastReturned
    /\ Len(ReceivedByAncestor(emitted, TRUE)) = 1
    /\ ReceivedByAncestor(emitted, TRUE)[1].detail.podcast.title = "Show B"

\* C13: podcast data given to the element as attributes is displayed by the
\* card, as data given through setPodcast is.
C13_AttributesDisplayed ==
    /\ attributes["title"] # None =>
          /\ card.elements.title = attributes["title"][1]
          /\ card.elements.alt = attributes["title"][1] \o " cover"
    /\ attributes["image"] # None => card.elements.src = attributes["image"][1]

C16_CollaboratorsOncePerEntry ==
    (lastOp.op = "render" /\ ~lastOp.threw) =>
        /\ Len(genreCalls) = Len(lastList)
        /\ Len(dateCalls) = Len(lastList)

\* C17: when a collaborator throws in render while the entry at index i (from
\* 0) is processed, the container holds the cards of the entries before i of
\* the new list, all created by this call, and nothing else.
C17_PartialRenderOnThrow ==
    (lastOp.op = "render" /\ lastOp.err = "collaborator") =>
        LET i == Len(genreCalls) - 1
        IN  /\ 0 <= i /\ i < Len(lastList)
            /\ Len(container) = i
            /\ \A k \in 1..Len(container) :
                  /\ container[k].createdIn = renders
                  /\ container[k].podcast # None
                  /\ container[k].podcast[1].id = lastList[k].id
                  /\ container[k].elements.title = lastList[k].title

C17_Witness ==
    /\ lastOp.op = "render"
    /\ lastOp.err = "collaborator"
    /\ renders = 2
    /\ Len(lastList) = 2
    /\ Len(container) = 1

\* C18: a setPodcast call that ends with a collaborator's exception has stored
\* its record and left the displayed fields and the click handler as they
\* were; a click on a card that displayed a record before then emits one
\* notification carrying the record of the failed call.
C18_FailedSetPodcastStoresRecord ==
    [][ /\ (lastOp'.op = "setPodcast" /\ lastOp'.threw) =>
              /\ card'.podcast = history'.lastSet
              /\ card'.elements = card.elements
              /\ card'.onclick = card.onclick
        /\ (lastOp'.op = "click" /\ history.everReturned /\ ~history.lastReturned) =>
              /\ Len(emitted') = 1
              /\ emitted'[1].detail.podcast = history.lastSet[1] ]_vars

\* the card displays one record and notifies of another
C18_Witness ==
    /\ lastOp.op = "click"
    /\ history.everReturned
    /\ ~history.lastReturned
    /\ Len(emitted) = 1
    /\ emitted[1].detail.podcast.title # card.elements.title

====
